---- MODULE Spec2Model ----
(***************************************************************************)
(* Model of code_analysis.py: a command-line program that parses one       *)
(* Python file, walks its syntax tree with CodeStructureAnalyzer (an       *)
(* ast.NodeVisitor), prints what it finds and renders a table report.      *)
(*                                                                         *)
(* A syntax tree is a sequence of statement nodes numbered in source       *)
(* order (which is depth-first pre-order); node[i].parent is the number of *)
(* the enclosing statement, 0 for the Module.  Python's None is the empty  *)
(* sequence and a present value v is <<v>>, so that an absent docstring    *)
(* and an empty one differ.  Docstring text is a sequence of characters.   *)
(***************************************************************************)
EXTENDS Naturals, Sequences, FiniteSets, TLC

\* ------------------------------------------------------------------------
\* Bounds of the model
\* ------------------------------------------------------------------------

\* Largest number of statement nodes in an analysed file.
MaxNodes == 3

\* Largest number of positional command-line arguments.
MaxArgs == 2

\* ------------------------------------------------------------------------
\* Values
\* ------------------------------------------------------------------------

None == <<>>

Some(v) == <<v>>

\* Paths are kept in three parts so that os.path.splitext and
\* os.path.basename can be computed.  Prog is sys.argv[0]; Paths are the
\* values a positional argument takes.
Prog == [dir |-> "", stem |-> "code_analysis", ext |-> ".py"]

Paths == {[dir |-> "pkg/", stem |-> "m", ext |-> ".py"]}

PathStr(p) == p.dir \o p.stem \o p.ext

\* os.path.splitext(p)[0] and os.path.basename(p)
SplitextRoot(p) == p.dir \o p.stem

Basename(p) == p.stem \o p.ext

\* Statement kinds.  FunctionDef, ClassDef, Import and ImportFrom have a
\* visit_ method; If and AsyncFunctionDef stand for the statements that have
\* a body and no visit_ method, which NodeVisitor hands to generic_visit.
HandledDefs == {"FunctionDef", "ClassDef"}

Containers == HandledDefs \cup {"If", "AsyncFunctionDef"}

Stmt(k, n, d) == [kind |-> k, name |-> n, doc |-> d, module |-> None, names |-> <<>>, parent |-> 0]

Alias(n, a) == [name |-> n, asname |-> a]

ImportStmt(k, m, as) == [kind |-> k, name |-> "", doc |-> None, module |-> m, names |-> as, parent |-> 0]

\* Statement shapes rich in definitions: same-named functions and classes
\* with an absent, an empty and an indented docstring.
DefStmts ==
    { Stmt("FunctionDef", "f", None), Stmt("FunctionDef", "f", Some(<<" ", "a">>)),
      Stmt("FunctionDef", "g", Some(<<>>)),
      Stmt("ClassDef", "C", None), Stmt("ClassDef", "C", Some(<<"b">>)),
      Stmt("If", "", None), Stmt("AsyncFunctionDef", "f", Some(<<"a">>)),
      ImportStmt("Import", None, <<Alias("os", None)>>),
      ImportStmt("ImportFrom", Some("x"), <<Alias("y", None)>>) }

\* Statement shapes rich in imports: dotted names, `as` names, several
\* aliases, and from-imports with and without a module.
ImportStmts ==
    { ImportStmt("Import", None, <<Alias("a.b", Some("x"))>>),
      ImportStmt("Import", None, <<Alias("os", None), Alias("a.b", None)>>),
      ImportStmt("ImportFrom", Some("x"), <<Alias("y", None), Alias("z", Some("w"))>>),
      ImportStmt("ImportFrom", None, <<Alias("s", None)>>),
      Stmt("FunctionDef", "f", Some(<<"a">>)), Stmt("ClassDef", "C", None),
      Stmt("If", "", None), Stmt("AsyncFunctionDef", "g", None) }

\* ------------------------------------------------------------------------
\* Trees
\* ------------------------------------------------------------------------

\* The statement numbers that enclose node i of t, i included.
RECURSIVE AncestorsOrSelf(_, _)
AncestorsOrSelf(t, i) ==
    IF i = 0 THEN {} ELSE {i} \cup AncestorsOrSelf(t, t[i].parent)

\* Where the next statement of the text can go: the module body, or the body
\* of a statement that is still open and can hold statements.
AttachPoints(t) ==
    {0} \cup {i \in AncestorsOrSelf(t, Len(t)) : t[i].kind \in Containers}

\* The children of node p, in source order (p = 0: the module body).
Children(t, p) ==
    LET RECURSIVE From(_)
        From(i) == IF i > Len(t) THEN <<>>
                   ELSE IF t[i].parent = p THEN <<i>> \o From(i + 1)
                   ELSE From(i + 1)
    IN From(1)

\* ------------------------------------------------------------------------
\* Library functions the program calls
\* ------------------------------------------------------------------------

\* str.lstrip on a sequence of characters.
RECURSIVE lstrip(_)
lstrip(s) ==
    IF s # <<>> /\ Head(s) = " " THEN lstrip(Tail(s)) ELSE s

\* inspect.cleandoc on a one-line text: the first line loses its leading
\* blanks; a line left empty is dropped, which gives the empty string.
cleandoc(s) == lstrip(s)

\* ast.get_docstring(node): None unless the first statement of the body is a
\* string constant (node.doc), else that text cleaned.
get_docstring(node) ==
    IF node.doc = None THEN None ELSE Some(cleandoc(node.doc[1]))

\* Truth value of an optional text: None and "" are false.
Truthy(d) == d # None /\ d[1] # <<>>

\* What an f-string makes of an optional string: None is formatted "None".
Format(v) == IF v = None THEN "None" ELSE v[1]

\* d.setdefault(k, v): the first value stored for a key stays.
DictSetDefault(d, k, v) ==
    IF \E i \in 1..Len(d) : d[i].key = k THEN d ELSE Append(d, [key |-> k, value |-> v])

\* A dict is the sequence of its items in insertion order.  d[k] = v keeps
\* the position of a key already present.
DictKeys(d) == { d[i].key : i \in 1..Len(d) }

DictGet(d, k) == d[CHOOSE i \in 1..Len(d) : d[i].key = k].value

DictSet(d, k, v) ==
    IF k \in DictKeys(d)
    THEN [ i \in 1..Len(d) |-> IF d[i].key = k THEN [key |-> k, value |-> v] ELSE d[i] ]
    ELSE Append(d, [key |-> k, value |-> v])

\* The orders in which iterating a set can yield its elements.
Orders(S) ==
    { s \in [1..Cardinality(S) -> S] : \A i, j \in 1..Cardinality(S) : s[i] = s[j] => i = j }

\* ------------------------------------------------------------------------
\* The visitor
\* ------------------------------------------------------------------------

\* A printed line: the stream, the colour set before it, what the line is
\* about, its text, the docstring printed after the text if any, and the node
\* whose visit printed it (None when none did; the Module is node 0).
Line(stream, color, kind, text, doc, node) ==
    [stream |-> stream, color |-> color, kind |-> kind, text |-> text, doc |-> doc,
     node |-> node]

\* visit_FunctionDef without its call of generic_visit.
FunctionDefBodyNoRecurse == <<"print", "record">>

\* visit_ClassDef with generic_visit called first.
ClassDefBodyPostOrder == <<"generic_visit", "print", "record">>

\* The statements of each visit_ method, in the order the method runs them.
\* A node without a visit_ method gets NodeVisitor.generic_visit alone.
FunctionDefBody == <<"print", "record", "generic_visit">>

ClassDefBody == <<"print", "record", "generic_visit">>

ImportBody == <<"names", "generic_visit">>

ImportFromBody == <<"names", "generic_visit">>

GenericBody == <<"generic_visit">>

\* NodeVisitor.visit: dispatch on the class of the node.
Method(kind) ==
    CASE kind = "FunctionDef" -> FunctionDefBody
      [] kind = "ClassDef" -> ClassDefBody
      [] kind = "Import" -> ImportBody
      [] kind = "ImportFrom" -> ImportFromBody
      [] OTHER -> GenericBody

KindOf(t, n) == IF n = 0 THEN "Module" ELSE t[n].kind

\* A pending call of visit(node), or the rest of a method that is waiting for
\* the visits of the node's children to return.
Call(t, n) == [node |-> n, steps |-> Method(KindOf(t, n)), fresh |-> TRUE]

\* The lines visit_FunctionDef and visit_ClassDef print for a node.
DefLines(color, label, n, node) ==
    <<Line("stdout", color, label, label \o ": " \o node.name, None, Some(n))>>
    \o (IF Truthy(get_docstring(node))
        THEN <<Line("stdout", "", "Docstring", "\tDocstring: ", get_docstring(node), Some(n))>>
        ELSE <<>>)

\* visit_Import storing the name the module is bound to.
ImportKeyBound(alias) == IF alias.asname # None THEN alias.asname[1] ELSE alias.name

\* The name visit_Import stores for an alias.
ImportKey(alias) == alias.name

\* visit_ImportFrom leaving an absent module out of the key.
ImportFromKeyRelative(module, alias) ==
    IF module = None THEN "." \o alias.name ELSE module[1] \o "." \o alias.name

\* The name visit_ImportFrom stores for an alias of a statement.
ImportFromKey(module, alias) == Format(module) \o "." \o alias.name

\* The name a statement's i-th alias is stored and printed under.
KeyOf(node, i) ==
    IF node.kind = "Import" THEN ImportKey(node.names[i])
    ELSE ImportFromKey(node.module, node.names[i])

ImportLines(n, node) ==
    [ i \in 1..Len(node.names) |->
        Line("stdout", "YELLOW", "Import", "Import: " \o KeyOf(node, i), None, Some(n)) ]

\* visit_FunctionDef with the assignment moved under `if docstring:`.
RecordFunctionIfDoc(a, node) ==
    IF Truthy(get_docstring(node))
    THEN [a EXCEPT !.functions = DictSet(@, node.name, get_docstring(node))]
    ELSE a

\* What visit_FunctionDef stores.
RecordFunction(a, node) ==
    [a EXCEPT !.functions = DictSet(@, node.name, get_docstring(node))]

\* What visit_ClassDef stores.
RecordClass(a, node) ==
    [a EXCEPT !.classes = DictSet(@, node.name, get_docstring(node))]

\* What the loops of visit_Import and visit_ImportFrom store.
RecordImports(a, node) ==
    [a EXCEPT !.dependencies = @ \cup { KeyOf(node, i) : i \in 1..Len(node.names) }]

\* One statement of a visit_ method, other than the call of generic_visit.
\* st holds the analyzer, the console and the pending calls.
Step(st, t, n, step) ==
    LET node == t[n] IN
    CASE step = "print" /\ node.kind = "FunctionDef" ->
           [st EXCEPT !.console = @ \o DefLines("GREEN", "Function", n, node)]
      [] step = "print" /\ node.kind = "ClassDef" ->
           [st EXCEPT !.console = @ \o DefLines("BLUE", "Class", n, node)]
      [] step = "record" /\ node.kind = "FunctionDef" ->
           [st EXCEPT !.analyzer = RecordFunction(@, node)]
      [] step = "record" /\ node.kind = "ClassDef" ->
           [st EXCEPT !.analyzer = RecordClass(@, node)]
      [] step = "names" ->
           [st EXCEPT !.console = @ \o ImportLines(n, node),
                      !.analyzer = RecordImports(@, node)]

\* generic_visit(node): visit the children in order; whatever the method does
\* after that call waits until they have returned.
GenericVisit(st, t, n, after) ==
    [st EXCEPT !.todo =
        [ i \in 1..Len(Children(t, n)) |-> Call(t, Children(t, n)[i]) ]
        \o (IF after = <<>> THEN <<>> ELSE <<[node |-> n, steps |-> after, fresh |-> FALSE]>>)
        \o @]

\* Run the statements of a method up to and including its call of generic_visit.
RECURSIVE Exec(_, _, _, _)
Exec(st, t, n, steps) ==
    IF steps = <<>> THEN st
    ELSE IF Head(steps) = "generic_visit" THEN GenericVisit(st, t, n, Tail(steps))
    ELSE Exec(Step(st, t, n, Head(steps)), t, n, Tail(steps))

\* ------------------------------------------------------------------------
\* State
\* ------------------------------------------------------------------------

VARIABLES
    pc,        \* position of the program: start, open, parse, init, visit, report, done
    argv,      \* sys.argv
    opened,    \* whether open(file_path) has been called
    tree,      \* the statements ast.parse has accepted; once it returns, the tree
    analyzer,  \* the CodeStructureAnalyzer instance: functions, classes, dependencies
               \* (nothing in them until an instance is made)
    todo,      \* nodes whose visit is pending, next first (the recursion of visit)
    visited,   \* nodes visited so far, in order
    console,   \* lines printed so far
    depOrder,  \* the order in which the dependency set iterates in this process
    report,    \* the document written, if any
    failure,   \* the exception that ended the run, if any
    exit,      \* exit status of the process, once it has ended
    run,       \* which analysis this is: first, other, again
    first      \* tree and result of the first analysis, once another has begun,
               \* and the tree analysed between it and its repetition, if any

vars == <<pc, argv, opened, tree, analyzer, todo, visited, console, depOrder,
          report, failure, exit, run, first>>

\* The three containers as class attributes, shared by every instance.
AnalyzerInitShared == analyzer

\* CodeStructureAnalyzer.__init__
AnalyzerInit == [functions |-> <<>>, classes |-> <<>>, dependencies |-> {}]

Init ==
    /\ pc = "start"
    /\ argv = <<>>
    /\ opened = FALSE
    /\ tree = <<>>
    /\ analyzer = [functions |-> <<>>, classes |-> <<>>, dependencies |-> {}]
    /\ todo = <<>>
    /\ visited = <<>>
    /\ console = <<>>
    /\ depOrder = <<>>
    /\ report = None
    /\ failure = None
    /\ exit = None
    /\ run = "first"
    /\ first = None

\* ------------------------------------------------------------------------
\* The program
\* ------------------------------------------------------------------------

\* An exception nobody catches: the interpreter prints the traceback on
\* standard error and the process ends with status 1.
Uncaught(exc) ==
    /\ failure' = Some(exc)
    /\ console' = Append(console, Line("stderr", "", "Traceback", exc, None, None))
    /\ exit' = Some(1)
    /\ pc' = "done"

UsageLine(a) ==
    Line("stdout", "", "Usage", "Usage: " \o PathStr(a[1]) \o " <path_to_python_file>", None, None)

\* The argument check testing len(sys.argv) < 2.
BadUsageFew(a) == Len(a) < 2

\* The test of the argument check: len(sys.argv) != 2
BadUsage(a) == Len(a) # 2

\* if __name__ == "__main__": the argument check.
Main ==
    /\ pc = "start"
    /\ \E n \in 0..MaxArgs : \E args \in [1..n -> Paths] :
         /\ argv' = <<Prog>> \o args
         /\ IF BadUsage(argv')
            THEN /\ console' = Append(console, UsageLine(argv'))
                 /\ exit' = Some(1)
                 /\ pc' = "done"
            ELSE /\ pc' = "open"
                 /\ UNCHANGED <<console, exit>>
    /\ UNCHANGED <<opened, tree, analyzer, todo, visited, depOrder, report, failure,
                   run, first>>

\* analyze_file: open and read the file.
ReadFile ==
    /\ pc = "open"
    /\ opened' = TRUE
    /\ \/ /\ Uncaught("FileNotFoundError")
          /\ UNCHANGED tree
       \/ /\ pc' = "parse"
          /\ tree' = <<>>
          /\ UNCHANGED <<console, exit, failure>>
    /\ UNCHANGED <<argv, analyzer, todo, visited, depOrder, report, run, first>>

\* analyze_file: tree = ast.parse(code).  The text is known by what the
\* parser makes of it: it accepts one more statement, drawn from U, ...
ParseStatement(U) ==
    /\ pc = "parse"
    /\ Len(tree) < MaxNodes
    /\ \E u \in U : \E p \in AttachPoints(tree) :
         tree' = Append(tree, [u EXCEPT !.parent = p])
    /\ UNCHANGED <<pc, argv, opened, analyzer, todo, visited, console, depOrder, report,
                   failure, exit, run, first>>

\* ... or it reaches the end of the text and ast.parse returns the tree, ...
ParseEnd ==
    /\ pc = "parse"
    /\ pc' = "init"
    /\ UNCHANGED <<argv, opened, tree, analyzer, todo, visited, console, depOrder, report,
                   failure, exit, run, first>>

\* The SyntaxError caught and printed, the run going on with an empty tree.
ParseErrorCaught ==
    /\ pc = "parse"
    /\ failure' = Some("SyntaxError")
    /\ console' = Append(console, Line("stdout", "RED", "Error", "SyntaxError", None, None))
    /\ tree' = <<>>
    /\ pc' = "init"
    /\ UNCHANGED <<argv, opened, analyzer, todo, visited, depOrder, report, exit, run, first>>

\* ... or the text is malformed from here on and ast.parse raises: no tree
\* is returned.
ParseError ==
    /\ pc = "parse"
    /\ Uncaught("SyntaxError")
    /\ tree' = <<>>
    /\ UNCHANGED <<argv, opened, analyzer, todo, visited, depOrder, report, run, first>>

\* analyze_file: analyzer = CodeStructureAnalyzer(); analyzer.visit(tree)
\* begins with the Module node.
NewAnalyzer ==
    /\ pc = "init"
    /\ analyzer' = AnalyzerInit
    /\ todo' = <<Call(tree, 0)>>
    /\ pc' = "visit"
    /\ UNCHANGED <<argv, opened, tree, visited, console, depOrder, report, failure,
                   exit, run, first>>

\* ------------------------------------------------------------------------
\* The traversal
\* ------------------------------------------------------------------------

\* Whether the call that runs next is for a node of one of the kinds.
Pending(kinds) ==
    pc = "visit" /\ todo # <<>> /\ KindOf(tree, Head(todo).node) \in kinds

\* The pending call at the head of todo runs.
RunHead ==
    /\ LET c == Head(todo)
           st == Exec([analyzer |-> analyzer, console |-> console, todo |-> Tail(todo)],
                      tree, c.node, c.steps)
       IN /\ analyzer' = st.analyzer
          /\ console' = st.console
          /\ todo' = st.todo
          /\ visited' = IF c.fresh THEN Append(visited, c.node) ELSE visited
    /\ UNCHANGED <<pc, argv, opened, tree, depOrder, report, failure, exit, run, first>>

visit_FunctionDef ==
    /\ Pending({"FunctionDef"})
    /\ RunHead

visit_ClassDef ==
    /\ Pending({"ClassDef"})
    /\ RunHead

visit_Import ==
    /\ Pending({"Import"})
    /\ RunHead

visit_ImportFrom ==
    /\ Pending({"ImportFrom"})
    /\ RunHead

generic_visit ==
    /\ Pending({"Module", "If", "AsyncFunctionDef"})
    /\ RunHead

\* ------------------------------------------------------------------------
\* Summary and report
\* ------------------------------------------------------------------------

\* analyze_file after the traversal: the "Dependencies:" section.  The set
\* iterates in an order the process fixes.
PrintDependencies ==
    /\ pc = "visit"
    /\ todo = <<>>
    /\ \E order \in Orders(analyzer.dependencies) :
         /\ depOrder' = order
         /\ console' = console
              \o <<Line("stdout", "RED", "Header", "\nDependencies:", None, None)>>
              \o [ i \in 1..Len(order) |-> Line("stdout", "", "Dependency", "\t" \o order[i], None, None) ]
    /\ pc' = "report"
    /\ UNCHANGED <<argv, opened, tree, analyzer, todo, visited, report, failure, exit,
                   run, first>>

Header == <<"Type", "Name", "Docstring">>

Blank == Some(<<>>)

DictRows(type, d) == [ i \in 1..Len(d) |-> <<type, d[i].key, d[i].value>> ]

ImportRows(order) == [ i \in 1..Len(order) |-> <<"Import", order[i], Blank>> ]

\* The table with the class rows put before the function rows.
TableDataClassesFirst(a, order) ==
    <<Header>> \o DictRows("Class", a.classes) \o DictRows("Function", a.functions)
    \o ImportRows(order)

\* The table generate_pdf_report builds.
TableData(a, order) ==
    <<Header>> \o DictRows("Function", a.functions) \o DictRows("Class", a.classes)
    \o ImportRows(order)

\* generate_pdf_report: build the document; doc.build writes it, or raises
\* before anything is written when the output path cannot be opened.
GenerateReport ==
    /\ pc = "report"
    /\ \/ /\ report' = Some([path |-> SplitextRoot(argv[2]) \o "_analysis_report.pdf",
                             title |-> "Code Analysis Report: " \o Basename(argv[2]),
                             data |-> TableData(analyzer, depOrder)])
          /\ exit' = Some(0)
          /\ pc' = "done"
          /\ UNCHANGED <<console, failure>>
       \/ /\ Uncaught("PermissionError")
          /\ UNCHANGED report
    /\ UNCHANGED <<argv, opened, tree, analyzer, todo, visited, depOrder, run, first>>

\* ------------------------------------------------------------------------
\* Specifications
\* ------------------------------------------------------------------------

Analyze ==
    \/ Main
    \/ ReadFile
    \/ ParseEnd
    \/ ParseError
    \/ NewAnalyzer
    \/ visit_FunctionDef
    \/ visit_ClassDef
    \/ visit_Import
    \/ visit_ImportFrom
    \/ generic_visit
    \/ PrintDependencies
    \/ GenerateReport

Next == Analyze \/ ParseStatement(DefStmts)

Spec == Init /\ [][Next]_vars

\* Statement shapes for repeated analyses.
TwiceStmts ==
    { Stmt("FunctionDef", "f", None), Stmt("FunctionDef", "g", Some(<<" ", "a">>)),
      Stmt("ClassDef", "C", Some(<<"b">>)), Stmt("If", "", None),
      ImportStmt("Import", None, <<Alias("os", None)>>),
      ImportStmt("ImportFrom", None, <<Alias("s", None)>>) }

\* Files analysed between an analysis and its repetition.
OtherInputs ==
    { <<Stmt("FunctionDef", "h", Some(<<"c">>))>>, <<Stmt("ClassDef", "D", None)>>,
      <<ImportStmt("Import", None, <<Alias("sys", None)>>)>> }

\* analyze_file is run once more, on the file of the first analysis or, before
\* that, on another file: the statements from tree = ast.parse(code) on, in a
\* process state that is new except for what the constructor of the analyzer
\* decides.
AnalyzeAgain ==
    /\ pc = "done"
    /\ exit = Some(0)
    /\ run # "again"
    /\ \/ /\ run' = "again"
          /\ first' = IF run = "first"
                      THEN Some([tree |-> tree, result |-> analyzer, other |-> None])
                      ELSE Some([first[1] EXCEPT !.other = Some(tree)])
          /\ tree' = first'[1].tree
       \/ /\ run = "first"
          /\ run' = "other"
          /\ first' = Some([tree |-> tree, result |-> analyzer, other |-> None])
          /\ tree' \in OtherInputs
    /\ pc' = "init"
    /\ todo' = <<>>
    /\ visited' = <<>>
    /\ console' = <<>>
    /\ depOrder' = <<>>
    /\ report' = None
    /\ exit' = None
    /\ UNCHANGED <<argv, opened, analyzer, failure>>

NextImports == Analyze \/ ParseStatement(ImportStmts)

SpecImports == Init /\ [][NextImports]_vars

NextTwice == Analyze \/ ParseStatement(TwiceStmts) \/ AnalyzeAgain

SpecTwice == Init /\ [][NextTwice]_vars

\* ------------------------------------------------------------------------
\* Properties
\* ------------------------------------------------------------------------

\* The traversal of the current analysis has run to its end.
Extracted == pc \in {"report", "done"} /\ visited # <<>>

NodesOf(t, k) == { i \in 1..Len(t) : t[i].kind = k }

NamesOf(t, k) == { t[i].name : i \in NodesOf(t, k) }

MapOf(k) == IF k = "FunctionDef" THEN analyzer.functions ELSE analyzer.classes

Entries(d, name) == { i \in 1..Len(d) : d[i].key = name }

DictItems(d) == { <<d[i].key, d[i].value>> : i \in 1..Len(d) }

TopLevelFunctions == { i \in NodesOf(tree, "FunctionDef") : tree[i].parent = 0 }

DistinctNames(S) == \A i, j \in S : tree[i].name = tree[j].name => i = j

\* The functions map holds the top-level functions and nothing else.
TopLevelRecorded ==
    /\ Len(analyzer.functions) = Cardinality(TopLevelFunctions)
    /\ \A i \in TopLevelFunctions :
         /\ Cardinality(Entries(analyzer.functions, tree[i].name)) = 1
         /\ DictGet(analyzer.functions, tree[i].name) = get_docstring(tree[i])

\* C1 as claimed: a file defining N top-level functions with distinct names
\* gives a functions map of exactly N entries, each holding the docstring of
\* its function or None.
C1_AsClaimed ==
    (Extracted /\ DistinctNames(TopLevelFunctions)) => TopLevelRecorded

\* C1 amended: when the N top-level functions with distinct names are the only
\* function definition nodes of the tree (none is nested in a function, a
\* class or another statement), the functions map has exactly N entries, each
\* holding the docstring of its function or None.
C1_OnlyTopLevel ==
    (/\ Extracted
     /\ DistinctNames(TopLevelFunctions)
     /\ NodesOf(tree, "FunctionDef") = TopLevelFunctions) => TopLevelRecorded

C1_Witness ==
    /\ Extracted
    /\ NodesOf(tree, "FunctionDef") = TopLevelFunctions
    /\ DistinctNames(TopLevelFunctions)
    /\ Cardinality(TopLevelFunctions) = 2
    /\ \E i, j \in TopLevelFunctions : tree[i].doc = None /\ tree[j].doc # None
    /\ Len(analyzer.functions) = 2

\* C2: a name is a key of the functions (classes) map only if a function
\* (class) definition node of that name has been visited; after the traversal
\* the keys of the functions map are exactly the names of the function
\* definition nodes at any depth, the keys of the classes map exactly the
\* names of the class definition nodes at any depth, and the maps hold
\* nothing but a docstring per name.
C2_KeysAreDefinitionNames ==
    /\ \A k \in HandledDefs :
         /\ DictKeys(MapOf(k)) \subseteq
              { tree[visited[i]].name : i \in { j \in 1..Len(visited) :
                    visited[j] # 0 /\ tree[visited[j]].kind = k } }
         /\ Extracted => DictKeys(MapOf(k)) = NamesOf(tree, k)
         /\ \A i \in 1..Len(MapOf(k)) : DOMAIN MapOf(k)[i] = {"key", "value"}
    /\ DOMAIN analyzer = {"functions", "classes", "dependencies"}

C2_Witness ==
    /\ Extracted
    /\ \E i \in NodesOf(tree, "FunctionDef") :
         /\ tree[i].parent # 0
         /\ tree[tree[i].parent].kind # "FunctionDef"
         /\ tree[i].name \in DictKeys(analyzer.functions)
         /\ \A j \in NodesOf(tree, "FunctionDef") : tree[j].name = tree[i].name => j = i
    /\ \E i \in NodesOf(tree, "ClassDef") :
         tree[i].parent # 0 /\ tree[i].name \in DictKeys(analyzer.classes)

\* The names the import statements of a tree stand for: the imported name of
\* each alias of a plain import, module "." symbol for a from-import.
PlainImports(t) ==
    UNION { { t[i].names[j].name : j \in 1..Len(t[i].names) } : i \in NodesOf(t, "Import") }

FromImports(t) ==
    UNION { { (IF t[i].module = None THEN "None" ELSE t[i].module[1]) \o "." \o t[i].names[j].name :
                j \in 1..Len(t[i].names) } : i \in NodesOf(t, "ImportFrom") }

\* C3: the dependency set never holds anything but the names of the import
\* statements of the tree, and after the traversal it is exactly the imported
\* names of the plain imports, kept whole whatever the `as` name, together
\* with module "." symbol for every alias of every from-import.
C3_DependenciesAreImports ==
    /\ analyzer.dependencies \subseteq PlainImports(tree) \cup FromImports(tree)
    /\ Extracted => analyzer.dependencies = PlainImports(tree) \cup FromImports(tree)

C3_Witness ==
    /\ Extracted
    /\ \E i \in NodesOf(tree, "Import") : \E j \in 1..Len(tree[i].names) :
         tree[i].names[j].asname # None /\ tree[i].names[j].name = "a.b"
    /\ {"a.b", "x.y", "x.z"} \subseteq analyzer.dependencies

\* The document holds a row for everything the analyzer holds, and every
\* statement of the file has been visited.
FullReport ==
    /\ report # None
    /\ Len(report[1].data)
         = 1 + Len(analyzer.functions) + Len(analyzer.classes) + Cardinality(analyzer.dependencies)
    /\ { visited[i] : i \in 1..Len(visited) } = 0..Len(tree)

\* C4: a failure of the read or of the parse ends the run with a non-zero
\* exit before the traversal and before generate_pdf_report; a run that has
\* ended has either written the full report and exited 0, or exited non-zero
\* with no report written; a report is never written after a failure.
C4_ReportOrError ==
    /\ failure \in {Some("FileNotFoundError"), Some("SyntaxError")} =>
         /\ pc = "done"
         /\ exit = Some(1)
         /\ report = None
         /\ visited = <<>>
         /\ depOrder = <<>>
    /\ pc = "done" => \/ exit = Some(0) /\ failure = None /\ FullReport
                      \/ exit = Some(1) /\ report = None
    /\ report # None => failure = None /\ FullReport

C4_Witness ==
    /\ pc = "done"
    /\ failure = Some("SyntaxError")
    /\ opened
    /\ exit = Some(1)
    /\ report = None

\* C5: with a number of positional arguments other than one the program
\* prints the usage line on standard output and exits with status 1, no file
\* opened, no node visited, no report written; with exactly one it runs
\* analyze_file on that argument and, when nothing fails, exits with status 0.
C5_Usage ==
    /\ (argv # <<>> /\ Len(argv) # 2) =>
         /\ pc = "done"
         /\ exit = Some(1)
         /\ console = <<UsageLine(argv)>>
         /\ console[1].stream = "stdout"
         /\ ~opened
         /\ visited = <<>>
         /\ analyzer = [functions |-> <<>>, classes |-> <<>>, dependencies |-> {}]
         /\ report = None
    /\ (argv # <<>> /\ Len(argv) = 2) =>
         /\ pc # "start"
         /\ pc \notin {"start", "open"} => opened
         /\ \A i \in 1..Len(console) : console[i].kind # "Usage"
         /\ (pc = "done" /\ failure = None) =>
              /\ exit = Some(0)
              /\ report # None
              /\ report[1].path = argv[2].dir \o argv[2].stem \o "_analysis_report.pdf"

C5_Witness ==
    /\ Len(argv) = 3
    /\ pc = "done"
    /\ exit = Some(1)
    /\ ~opened

\* The rows of the table from row lo + 1 to row lo + n.
Block(data, lo, n) == { data[lo + i] : i \in 1..n }

\* C6: the table is the header row {Type, Name, Docstring}, then one row per
\* entry of the functions map with the stored docstring, then one row per
\* entry of the classes map with the stored docstring, then one row per
\* element of the dependency set with a blank docstring column, so that the
\* body has |functions| + |classes| + |dependencies| rows.
C6_TableRows ==
    report # None =>
      LET data == report[1].data
          nf == Len(analyzer.functions)
          nc == Len(analyzer.classes)
          nd == Cardinality(analyzer.dependencies)
      IN /\ data[1] = <<"Type", "Name", "Docstring">>
         /\ Len(data) = 1 + nf + nc + nd
         /\ Cardinality(DictKeys(analyzer.functions)) = nf
         /\ Cardinality(DictKeys(analyzer.classes)) = nc
         /\ Block(data, 1, nf)
              = { <<"Function", it[1], it[2]>> : it \in DictItems(analyzer.functions) }
         /\ Block(data, 1 + nf, nc)
              = { <<"Class", it[1], it[2]>> : it \in DictItems(analyzer.classes) }
         /\ Block(data, 1 + nf + nc, nd)
              = { <<"Import", d, <<<<>>>> >> : d \in analyzer.dependencies }

C6_Witness ==
    /\ report # None
    /\ Len(analyzer.functions) = 1
    /\ Len(analyzer.classes) = 1
    /\ Cardinality(analyzer.dependencies) = 1
    /\ analyzer.classes[1].value = None
    /\ Len(report[1].data) = 4

SameContents(a, b) ==
    /\ DictItems(a.functions) = DictItems(b.functions)
    /\ DictItems(a.classes) = DictItems(b.classes)
    /\ a.dependencies = b.dependencies

\* C7: an analysis that repeats the first one on the same tree, whatever was
\* analysed in between, ends with the same functions, classes and
\* dependencies as the first; every traversal starts from empty containers.
C7_SameResultTwice ==
    /\ (run = "again" /\ Extracted) => SameContents(analyzer, first[1].result)
    /\ (pc = "visit" /\ visited = <<>>) =>
         analyzer.functions = <<>> /\ analyzer.classes = <<>> /\ analyzer.dependencies = {}

C7_Witness ==
    /\ run = "again"
    /\ Extracted
    /\ first[1].other # None
    /\ Len(first[1].tree) = MaxNodes
    /\ analyzer.functions # <<>>
    /\ analyzer.dependencies # {}

\* The nodes of a tree in depth-first pre-order, from node n down.
RECURSIVE PreOrder(_, _)
PreOrder(t, n) ==
    LET kids == Children(t, n)
        RECURSIVE Cat(_)
        Cat(i) == IF i > Len(kids) THEN <<>> ELSE PreOrder(t, kids[i]) \o Cat(i + 1)
    IN <<n>> \o Cat(1)

\* The last node of kind k and the given name in depth-first pre-order.
LastNamed(t, k, name) ==
    LET po == PreOrder(t, 0)
        at == { j \in 1..Len(po) : po[j] # 0 /\ t[po[j]].kind = k /\ t[po[j]].name = name }
    IN po[CHOOSE j \in at : \A h \in at : h <= j]

\* C8: nodes are visited in depth-first pre-order, and when several function
\* (class) definition nodes share a name the map holds one entry for the
\* name, with the docstring of the one that comes last in that order, None
\* when that one has no docstring.
C8_LastVisitWins ==
    Extracted =>
      /\ visited = PreOrder(tree, 0)
      /\ \A k \in HandledDefs : \A name \in NamesOf(tree, k) :
           /\ Cardinality(Entries(MapOf(k), name)) = 1
           /\ DictGet(MapOf(k), name) = get_docstring(tree[LastNamed(tree, k, name)])

C8_Witness ==
    /\ Extracted
    /\ \E i, j \in NodesOf(tree, "FunctionDef") :
         /\ tree[j].parent = i
         /\ tree[i].name = tree[j].name
         /\ tree[i].doc # None
         /\ tree[j].doc = None
         /\ DictGet(analyzer.functions, tree[i].name) = None
         /\ \E h \in 1..Len(tree) : h > j /\ tree[h].parent = 0

ModuleLess(n) == n # 0 /\ tree[n].kind = "ImportFrom" /\ tree[n].module = None

\* C9: once a from-import statement without a module has been visited, the
\* dependency set holds "None." followed by the symbol for each of its
\* symbols, and the traversal goes on without an error.
C9_NoneModuleKey ==
    \A i \in 1..Len(visited) :
       ModuleLess(visited[i]) =>
         /\ \A j \in 1..Len(tree[visited[i]].names) :
              ("None." \o tree[visited[i]].names[j].name) \in analyzer.dependencies
         /\ failure \in {None, Some("PermissionError")}
         /\ pc = "done" => { visited[h] : h \in 1..Len(visited) } = 0..Len(tree)

C9_Witness ==
    /\ Extracted
    /\ \E i \in 1..Len(visited) : ModuleLess(visited[i])
    /\ "None.s" \in analyzer.dependencies
    /\ exit = Some(0)

\* The console lines the visit of node n printed.
LinesOf(n) == { i \in 1..Len(console) : console[i].node = Some(n) }

Encloses(a, b) == a \in AncestorsOrSelf(tree, tree[b].parent)

\* The line of every definition precedes the lines of what is nested in it,
\* and is printed before anything nested in it is visited.
LinesBeforeNested ==
    /\ \A i, j \in 1..Len(console) :
         (/\ console[i].node # None
          /\ console[j].node # None
          /\ Encloses(console[i].node[1], console[j].node[1])) => i < j
    /\ \A h \in 1..Len(visited) : \A a \in 1..Len(tree) :
         (/\ visited[h] # 0
          /\ tree[a].kind \in HandledDefs
          /\ Encloses(a, visited[h])) => LinesOf(a) # {}

\* C10 as claimed: every statement node visited has a console line, and the
\* line of a definition precedes the lines of what is nested in it.
C10_AsClaimed ==
    /\ \A h \in 1..Len(visited) : visited[h] # 0 => LinesOf(visited[h]) # {}
    /\ LinesBeforeNested

\* C10 amended: every function definition and class definition node visited
\* has a console line naming it, every import statement visited has one line
\* per alias, nodes of other kinds print nothing; the line of a node is
\* printed before its children are visited, so the line of a definition
\* precedes the lines of every definition and import nested in it.
C10_HandledNodesPrint ==
    /\ \A h \in 1..Len(visited) :
         LET n == visited[h] IN
         n # 0 =>
           CASE tree[n].kind = "FunctionDef" ->
                  \E i \in LinesOf(n) : console[i].text = "Function: " \o tree[n].name
             [] tree[n].kind = "ClassDef" ->
                  \E i \in LinesOf(n) : console[i].text = "Class: " \o tree[n].name
             [] tree[n].kind \in {"Import", "ImportFrom"} ->
                  Cardinality(LinesOf(n)) = Len(tree[n].names)
             [] OTHER -> LinesOf(n) = {}
    /\ LinesOf(0) = {}
    /\ LinesBeforeNested

C10_Witness ==
    /\ Extracted
    /\ \E i, j \in 1..Len(console) :
         /\ i < j
         /\ console[i].kind = "Class"
         /\ console[j].kind = "Import"
         /\ tree[console[j].node[1]].parent = console[i].node[1]
    /\ \E h \in 1..Len(visited) : visited[h] # 0 /\ tree[visited[h]].kind = "If"

====
